---- MODULE Spec2Model ----
(***************************************************************************)
(* vuex-selectors: selector composition (createSelector), the getter and   *)
(* selector-factory registries behind useSelector / useSelectorCreator,    *)
(* the read-only proxy over the store state, and the mutation setter.      *)
(*                                                                         *)
(* JavaScript values are records [t, n, s, p]:                             *)
(*   t  the kind, n  a number or an object id, s  a string,                *)
(*   p  0 for a raw object, the identity of the Proxy for a view.          *)
(***************************************************************************)
EXTENDS Integers, Sequences, FiniteSets, TLC

VARIABLES
    storeKey,         \* CONFIGURATION.storeKey ("" when undefined)
    heap,             \* every raw object: id -> [field -> value]
    viewRegistry,     \* registry of createGetImmutableState: key -> view
    getters,          \* every getter closure constructed so far
    getterRegistry,   \* registry of createGetGetterRegistry: selector -> getter
    factoryRegistry,  \* registry of createGetSelectorFactoryRegistry
    binds,            \* the computed refs handed to components
    refs,             \* the values of the Vue refs
    commits,          \* the calls of store.commit, in order
    last              \* what the last operation did

vars == <<storeKey, heap, viewRegistry, getters, getterRegistry,
          factoryRegistry, binds, refs, commits, last>>

-----------------------------------------------------------------------------
(* Bounds of the model.                                                    *)

MaxInputs == 2        \* input selectors of one createSelector call
MaxBinds == 2         \* computed refs created in one run
MaxAssigns == 3       \* assignments through writable refs in one run
MaxFactoryArgs == 2   \* arguments of one useSelectorCreator call
MaxInvocations == 2   \* invocations of one composed selector

-----------------------------------------------------------------------------
(* JavaScript values.                                                      *)

Undef == [t |-> "undefined", n |-> 0, s |-> "", p |-> 0]
Null == [t |-> "null", n |-> 0, s |-> "", p |-> 0]
NaN == [t |-> "nan", n |-> 0, s |-> "", p |-> 0]
Num(k) == [t |-> "number", n |-> k, s |-> "", p |-> 0]
Str(x) == [t |-> "string", n |-> 0, s |-> x, p |-> 0]
Bool(b) == [t |-> "boolean", n |-> IF b THEN 1 ELSE 0, s |-> "", p |-> 0]
Obj(id) == [t |-> "object", n |-> id, s |-> "", p |-> 0]
Proxy(id, vid) == [t |-> "object", n |-> id, s |-> "", p |-> vid]
Func(name) == [t |-> "function", n |-> 0, s |-> name, p |-> 0]
\* an object or an array literal of a component, outside the store
Literal(id) == [t |-> "literal", n |-> id, s |-> "", p |-> 0]
Arr(id) == [t |-> "array", n |-> id, s |-> "", p |-> 0]
RefTo(r) == [t |-> "ref", n |-> r, s |-> "", p |-> 0]

\* typeof value
Typeof(v) ==
    CASE v.t \in {"null", "ref", "literal", "array"} -> "object"
      [] v.t = "nan" -> "number"
      [] OTHER -> v.t

\* a === b
StrictEq(a, b) == a.t # "nan" /\ b.t # "nan" /\ a = b

\* isRef(value)
isRef(v) == v.t = "ref"

Digit(d) ==
    CASE d = 0 -> "0" [] d = 1 -> "1" [] d = 2 -> "2" [] d = 3 -> "3"
      [] d = 4 -> "4" [] d = 5 -> "5" [] d = 6 -> "6" [] d = 7 -> "7"
      [] d = 8 -> "8" [] OTHER -> "9"

RECURSIVE NatToString(_)
NatToString(k) ==
    IF k < 10 THEN Digit(k) ELSE NatToString(k \div 10) \o Digit(k % 10)

NumberToString(k) == IF k < 0 THEN "-" \o NatToString(-k) ELSE NatToString(k)

-----------------------------------------------------------------------------
(* The stores and their state trees.  Each store holds                     *)
(*   { a, b, status, data: { name, codes: { a }, list: [7] } }             *)
(* as in the states of the tests (TSimpleState and TDeepState), with an    *)
(* array as in the README's state.customers.                               *)

DEFAULT_KEY == "default"          \* STORES_REGISTRY_DEFAULT_KEY
UNWRAP_KEY == "@@unwrap"          \* IMMUTABLE_STATE_PROXY_UNWRAP_KEY
NoKey == ""                       \* CONFIGURATION.storeKey === undefined

InjectionKeys == {"k1", "k2"}
StoreIds == {DEFAULT_KEY} \cup InjectionKeys

StoreIndex(k) == CASE k = DEFAULT_KEY -> 0 [] k = "k1" -> 1 [] OTHER -> 2
RootOf(k) == 4 * StoreIndex(k) + 1
DataOf(k) == 4 * StoreIndex(k) + 2
CodesOf(k) == 4 * StoreIndex(k) + 3
ListOf(k) == 4 * StoreIndex(k) + 4
ObjIds == 1..(4 * Cardinality(StoreIds))

\* useStore(key): the store injected under key, the default one for undefined
useStore(key) == IF key = NoKey THEN DEFAULT_KEY ELSE key

InitialProps(id) ==
    LET i == (id - 1) \div 4
        r == (id - 1) % 4
    IN  CASE r = 0 -> [a |-> Num(i + 1), b |-> Num(2), status |-> Num(1),
                       data |-> Obj(id + 1)]
          [] r = 1 -> [name |-> Str("A"), codes |-> Obj(id + 1),
                       list |-> Obj(id + 2)]
          [] r = 2 -> [a |-> Num(i + 2)]
          [] OTHER -> ("0" :> Num(7)) @@ ("length" :> Num(1))

\* An object is its properties with their attributes: props the values,
\* nonWritable and nonConfigurable the keys whose attribute is false.  The
\* properties of the object literals have both true; the length of an array
\* is writable and not configurable.
InitialObject(id) ==
    [props |-> InitialProps(id),
     nonWritable |-> {},
     nonConfigurable |-> IF (id - 1) % 4 = 3 THEN {"length"} ELSE {}]

InitialHeap == [id \in ObjIds |-> InitialObject(id)]

-----------------------------------------------------------------------------
(* Conversions of JavaScript values.                                       *)

MaxParse == 99        \* largest numeral a string is parsed to

\* the elements of the array literals
ArrayItems(v) == IF v.n = 1 THEN <<Num(1), Num(2), Num(3)>> ELSE << >>

RECURSIVE ToStr(_), Join(_)

\* Array.prototype.join: the elements separated by ",", null and undefined
\* as the empty string
Join(items) ==
    LET e(v) == IF v.t \in {"undefined", "null"} THEN "" ELSE ToStr(v)
    IN  IF Len(items) = 0 THEN ""
        ELSE IF Len(items) = 1 THEN e(items[1])
        ELSE e(items[1]) \o "," \o Join(Tail(items))

\* String(value)
ToStr(v) ==
    CASE v.t = "undefined" -> "undefined"
      [] v.t = "array" -> Join(ArrayItems(v))
      [] v.t = "null" -> "null"
      [] v.t = "nan" -> "NaN"
      [] v.t = "number" -> NumberToString(v.n)
      [] v.t = "string" -> v.s
      [] v.t = "boolean" -> IF v.n = 1 THEN "true" ELSE "false"
      [] v.t = "function" -> "function " \o v.s \o "() {}"
      [] OTHER -> "[object Object]"

\* Number(value)
ToNumber(v) ==
    CASE v.t = "number" -> v
      [] v.t = "null" -> Num(0)
      [] v.t = "boolean" -> Num(v.n)
      [] v.t = "string" ->
            IF v.s = "" THEN Num(0)
            ELSE IF \E k \in 0..MaxParse : NumberToString(k) = v.s
                 THEN Num(CHOOSE k \in 0..MaxParse : NumberToString(k) = v.s)
                 ELSE NaN
      [] OTHER -> NaN

\* Boolean(value)
ToBoolean(v) ==
    CASE v.t \in {"undefined", "null", "nan"} -> FALSE
      [] v.t = "number" -> v.n # 0
      [] v.t = "string" -> v.s # ""
      [] v.t = "boolean" -> v.n = 1
      [] OTHER -> TRUE

\* a - b
Sub(a, b) ==
    LET x == ToNumber(a)
        y == ToNumber(b)
    IN  IF x.t = "nan" \/ y.t = "nan" THEN NaN ELSE Num(x.n - y.n)

\* a * b
Mul(a, b) ==
    LET x == ToNumber(a)
        y == ToNumber(b)
    IN  IF x.t = "nan" \/ y.t = "nan" THEN NaN ELSE Num(x.n * y.n)

\* a + b
Add(a, b) ==
    IF a.t \in {"string", "object", "function", "ref", "literal", "array"}
       \/ b.t \in {"string", "object", "function", "ref", "literal", "array"}
    THEN Str(ToStr(a) \o ToStr(b))
    ELSE LET x == ToNumber(a)
             y == ToNumber(b)
         IN  IF x.t = "nan" \/ y.t = "nan" THEN NaN ELSE Num(x.n + y.n)

-----------------------------------------------------------------------------
(* Property access on raw objects and on views.  An evaluation threads a   *)
(* context: the heap, the identity of the next Proxy it constructs, the    *)
(* error it has thrown ("" while it has thrown none), and the log of the   *)
(* function calls it has made: <<"call", fn, args>> when fn is entered     *)
(* with the arguments args, <<"return", fn>> or <<"throw", fn>> when it is *)
(* left.                                                                   *)

MutationError == "Mutations in selectors are not allowed."
TypeError == "TypeError"
NoError == ""

\* the identities below it belong to the top-level views, one per store
FirstNestedView == Cardinality(StoreIds) + 1

Ctx(h) == [h |-> h, nv |-> FirstNestedView, err |-> NoError, log |-> << >>]
Ret(ctx, val) == [ctx |-> ctx, val |-> val]
Throw(ctx, e) == [ctx |-> [ctx EXCEPT !.err = e], val |-> Undef]

\* target[key] on a raw object
RawGet(h, id, key) ==
    IF key \in DOMAIN h[id].props THEN h[id].props[key] ELSE Undef

RawHas(h, id, key) == key \in DOMAIN h[id].props
IsWritable(h, id, key) == key \notin h[id].nonWritable
IsConfigurable(h, id, key) == key \notin h[id].nonConfigurable

\* target[key] = v on a raw object whose property is writable (or absent):
\* the value changes, the attributes stay
RawSet(h, id, key, v) ==
    [h EXCEPT ![id].props = [x \in DOMAIN @ \cup {key} |->
                                IF x = key THEN v ELSE @[x]]]

\* delete target[key] on a raw object whose property is configurable
RawDelete(h, id, key) ==
    [h EXCEPT ![id].props = [x \in DOMAIN @ \ {key} |-> @[x]],
              ![id].nonWritable = @ \ {key}]

\* Object.defineProperty(target, key, {value: v}) on a raw object without
\* the property: the attributes the descriptor leaves out are false
RawDefine(h, id, key, v) ==
    [h EXCEPT ![id].props = [x \in DOMAIN @ \cup {key} |->
                                IF x = key THEN v ELSE @[x]],
              ![id].nonWritable = @ \cup {key},
              ![id].nonConfigurable = @ \cup {key}]

\* a get trap that keeps one Proxy per nested object and returns it again
HandlerGetCached(ctx, target, key) ==
    IF key = UNWRAP_KEY
    THEN Ret(ctx, Obj(target))
    ELSE LET v == RawGet(ctx.h, target, key)
         IN  IF Typeof(v) = "object" /\ v.t # "null"
             THEN Ret(ctx, Proxy(v.n, FirstNestedView + v.n))
             ELSE Ret(ctx, v)

\* a get trap that answers the unwrap key with a new Proxy over the target
HandlerGetRewrap(ctx, target, key) ==
    IF key = UNWRAP_KEY
    THEN Ret([ctx EXCEPT !.nv = @ + 1], Proxy(target, ctx.nv))
    ELSE LET v == RawGet(ctx.h, target, key)
         IN  IF Typeof(v) = "object" /\ v.t # "null"
             THEN Ret([ctx EXCEPT !.nv = @ + 1], Proxy(v.n, ctx.nv))
             ELSE Ret(ctx, v)

\* IMMUTABLE_STATE_PROXY_HANDLER.get(target, key)
HandlerGet(ctx, target, key) ==
    IF key = UNWRAP_KEY
    THEN Ret(ctx, Obj(target))
    ELSE LET v == RawGet(ctx.h, target, key)
         IN  IF Typeof(v) = "object" /\ v.t # "null"
             THEN Ret([ctx EXCEPT !.nv = @ + 1], Proxy(v.n, ctx.nv))
             ELSE Ret(ctx, v)

\* a set trap that refuses the write without throwing
HandlerSetSilent(ctx) == ctx

\* IMMUTABLE_STATE_PROXY_HANDLER.set()
HandlerSet(ctx) == Throw(ctx, MutationError).ctx

\* o[key]
Get(ctx, o, key) ==
    IF ctx.err # NoError THEN Ret(ctx, Undef)
    ELSE IF o.t \in {"undefined", "null"} THEN Throw(ctx, TypeError)
    ELSE IF o.t # "object" THEN Ret(ctx, Undef)
    ELSE IF o.p > 0 THEN HandlerGet(ctx, o.n, key)
    ELSE Ret(ctx, RawGet(ctx.h, o.n, key))

\* o[key] = v (strict mode): a property that is not writable throws
Set(ctx, o, key, v) ==
    IF ctx.err # NoError THEN ctx
    ELSE IF o.t # "object" THEN Throw(ctx, TypeError).ctx
    ELSE IF o.p > 0 THEN HandlerSet(ctx)
    ELSE IF ~IsWritable(ctx.h, o.n, key) THEN Throw(ctx, TypeError).ctx
    ELSE [ctx EXCEPT !.h = RawSet(ctx.h, o.n, key, v)]

\* delete o[key] (strict mode): the handler has no deleteProperty trap, a
\* view forwards it; a property that is not configurable throws
Delete(ctx, o, key) ==
    IF ctx.err # NoError THEN ctx
    ELSE IF o.t \in {"undefined", "null"} THEN Throw(ctx, TypeError).ctx
    ELSE IF o.t # "object" THEN ctx
    ELSE IF RawHas(ctx.h, o.n, key) /\ ~IsConfigurable(ctx.h, o.n, key)
    THEN Throw(ctx, TypeError).ctx
    ELSE [ctx EXCEPT !.h = RawDelete(ctx.h, o.n, key)]

\* Object.defineProperty(o, key, {value: v}): the handler has no
\* defineProperty trap, a view forwards it.  A property that is absent is
\* created not writable and not configurable; one that is there keeps its
\* attributes and takes the value, unless it is neither configurable nor
\* writable, when any other value throws.
DefineProperty(ctx, o, key, v) ==
    IF ctx.err # NoError THEN ctx
    ELSE IF o.t # "object" THEN Throw(ctx, TypeError).ctx
    ELSE IF ~RawHas(ctx.h, o.n, key)
    THEN [ctx EXCEPT !.h = RawDefine(ctx.h, o.n, key, v)]
    ELSE IF IsConfigurable(ctx.h, o.n, key) \/ IsWritable(ctx.h, o.n, key)
    THEN [ctx EXCEPT !.h = RawSet(ctx.h, o.n, key, v)]
    ELSE IF RawGet(ctx.h, o.n, key) = v THEN ctx
    ELSE Throw(ctx, TypeError).ctx

-----------------------------------------------------------------------------
(* Functions: pure selectors (state => state.f), combiners, and the        *)
(* selectors createSelector returns.  A function is a record               *)
(*   [k, f, inputs, comb, cv]: k its kind, f the field a pure selector     *)
(* reads or the name of a combiner body, inputs and comb the input         *)
(* selectors and the combiner a composed selector closes over, cv the      *)
(* value a function made by a factory closes over.                         *)

PureSelector(f) ==
    [k |-> "pure", f |-> f, inputs |-> <<>>, comb |-> <<>>, cv |-> Undef]
Combiner(f) ==
    [k |-> "fn", f |-> f, inputs |-> <<>>, comb |-> <<>>, cv |-> Undef]
Closure(f, v) ==
    [k |-> "fn", f |-> f, inputs |-> <<>>, comb |-> <<>>, cv |-> v]
\* a value that is no function, passed where one is expected
NotCallable ==
    [k |-> "value", f |-> "", inputs |-> <<>>, comb |-> <<>>, cv |-> Undef]

\* createSelector with args.shift() in place of args.pop()
createSelectorShift(args) ==
    [k |-> "composed", f |-> "",
     inputs |-> IF Len(args) = 0 THEN <<>> ELSE SubSeq(args, 2, Len(args)),
     comb |-> IF Len(args) = 0 THEN <<>> ELSE <<args[1]>>,
     cv |-> Undef]

\* createSelector(...args): args.pop() takes the combiner off the list (it is
\* undefined, here <<>>, when the list is empty); the rest are the inputs
createSelector(args) ==
    [k |-> "composed", f |-> "",
     inputs |-> IF Len(args) = 0 THEN <<>> ELSE SubSeq(args, 1, Len(args) - 1),
     comb |-> IF Len(args) = 0 THEN <<>> ELSE <<args[Len(args)]>>,
     cv |-> Undef]

\* the i-th argument of a call, undefined when the call passes fewer
Arg(args, i) == IF i <= Len(args) THEN args[i] ELSE Undef

\* Array.prototype.push.call(o, v): Set(o, length, v), Set(o, "length", length + 1)
ArrayPush(ctx, o, v) ==
    LET len == Get(ctx, o, "length")
        c1 == Set(len.ctx, o, NumberToString(len.val.n), v)
        c2 == Set(c1, o, "length", Num(len.val.n + 1))
    IN  IF c2.err # NoError THEN Ret(c2, Undef)
        ELSE Ret(c2, Num(len.val.n + 1))

\* Array.prototype.pop.call(o): Get(o, length - 1), DeletePropertyOrThrow(o,
\* length - 1), Set(o, "length", length - 1)
ArrayPop(ctx, o) ==
    LET len == Get(ctx, o, "length")
        index == NumberToString(len.val.n - 1)
        e == Get(len.ctx, o, index)
        c1 == Delete(e.ctx, o, index)
        c2 == Set(c1, o, "length", Num(len.val.n - 1))
        c0 == Set(len.ctx, o, "length", Num(0))
    IN  IF len.val.n = 0
        THEN Ret(c0, Undef)
        ELSE IF c2.err # NoError THEN Ret(c2, Undef) ELSE Ret(c2, e.val)

\* The bodies of the combiners: those of the tests and of the README, and
\* bodies that try to change the data they receive:
\*   data => { data[field] = null; return data[field]; }      (the tests')
\*   data => { delete data[field]; return data[field]; }
\*   data => { Object.defineProperty(data, field, {value: null}); return data[field]; }
\*   list => list.push(v),  list => list.pop()
\* and one that reads a field twice and compares what it got:
\*   state => state[field] === state[field]
\* and one that returns an object or an array it constructs:
\*   a => ({a: 5}),  a => [1, 2, 3]
CombinerBody(fn, args, ctx) ==
    LET x == Arg(args, 1)
        y == Arg(args, 2)
    IN  CASE fn.f = "sum" -> Ret(ctx, Add(x, y))
          [] fn.f = "sub" -> Ret(ctx, Sub(x, y))
          [] fn.f = "mul" -> Ret(ctx, Mul(x, y))
          [] fn.f = "mulc" -> Ret(ctx, Mul(Mul(x, y), fn.cv))
          [] fn.f = "name" -> Get(ctx, x, "name")
          [] fn.f = "codes" -> Get(ctx, x, "codes")
          [] fn.f = "codeA" -> Get(ctx, x, "a")
          [] fn.f = "dataIf" ->
                IF ToBoolean(fn.cv) THEN Get(ctx, x, "data") ELSE Ret(ctx, Null)
          [] fn.f = "list" -> Get(ctx, x, "list")
          [] fn.f = "assign" -> Get(Set(ctx, x, fn.cv.s, Null), x, fn.cv.s)
          [] fn.f = "delete" -> Get(Delete(ctx, x, fn.cv.s), x, fn.cv.s)
          [] fn.f = "define" ->
                Get(DefineProperty(ctx, x, fn.cv.s, Null), x, fn.cv.s)
          [] fn.f = "push" -> ArrayPush(ctx, x, fn.cv)
          [] fn.f = "pop" -> ArrayPop(ctx, x)
          [] fn.f = "make" -> Ret(ctx, fn.cv)
          [] fn.f = "twice" ->
                Ret(Get(Get(ctx, x, fn.cv.s).ctx, x, fn.cv.s).ctx,
                    Bool(StrictEq(Get(ctx, x, fn.cv.s).val,
                                  Get(Get(ctx, x, fn.cv.s).ctx, x, fn.cv.s).val)))
          [] OTHER -> Ret(ctx, Undef)

RECURSIVE Call(_, _, _), ApplyInputs(_, _, _, _, _),
          ApplyInputsReversed(_, _, _, _, _), ApplyInputsOrState(_, _, _, _, _)

\* the context on entering fn, and the outcome r of its body on leaving it
Entered(ctx, fn, args) == [ctx EXCEPT !.log = Append(@, <<"call", fn, args>>)]
Left(fn, r) ==
    Ret([r.ctx EXCEPT !.log =
            Append(@, <<IF r.ctx.err = NoError THEN "return" ELSE "throw", fn>>)],
        r.val)

\* the loop of the selector createSelector returns, run from the last input
\* selector to the first
ApplyInputsReversed(inputs, state, i, combinerArgs, ctx) ==
    IF i > Len(inputs) \/ ctx.err # NoError
    THEN Ret(ctx, combinerArgs)
    ELSE LET k == Len(inputs) - i + 1
             r == Call(inputs[k], <<state>>, ctx)
         IN  ApplyInputsReversed(inputs, state, i + 1,
                                 [j \in 1..Len(inputs) |->
                                     IF j = k THEN r.val
                                     ELSE IF j \in DOMAIN combinerArgs
                                          THEN combinerArgs[j] ELSE Undef],
                                 r.ctx)

\* the loop of the selector createSelector returns, handing the state to the
\* combiner when there are no input selectors
ApplyInputsOrState(inputs, state, i, combinerArgs, ctx) ==
    IF i > Len(inputs) \/ ctx.err # NoError
    THEN Ret(ctx, IF Len(inputs) = 0 THEN <<state>> ELSE combinerArgs)
    ELSE LET r == Call(inputs[i], <<state>>, ctx)
         IN  ApplyInputsOrState(inputs, state, i + 1,
                                [j \in 1..i |-> IF j = i THEN r.val
                                                ELSE combinerArgs[j]],
                                r.ctx)

\* The loop of the selector createSelector returns:
\*   for (i = 0; i < args.length; i++) combinerArgs[i] = args[i](state)
ApplyInputs(inputs, state, i, combinerArgs, ctx) ==
    IF i > Len(inputs) \/ ctx.err # NoError
    THEN Ret(ctx, combinerArgs)
    ELSE LET r == Call(inputs[i], <<state>>, ctx)
         IN  ApplyInputs(inputs, state, i + 1,
                         [j \in 1..i |-> IF j = i THEN r.val
                                         ELSE combinerArgs[j]],
                         r.ctx)

\* the body of fn run on args
FunctionBody(fn, args, ctx) ==
    CASE fn.k = "pure" -> Get(ctx, Arg(args, 1), fn.f)
      [] fn.k = "fn" -> CombinerBody(fn, args, ctx)
      [] fn.k = "composed" ->
            LET r == ApplyInputs(fn.inputs, Arg(args, 1), 1, <<>>, ctx)
            IN  IF r.ctx.err # NoError THEN Ret(r.ctx, Undef)
                ELSE IF fn.comb = <<>> THEN Throw(r.ctx, TypeError)
                ELSE Call(fn.comb[1], r.val, r.ctx)
      [] OTHER -> Throw(ctx, TypeError)

\* fn(...args); calling what is no function throws before anything is entered
Call(fn, args, ctx) ==
    IF ctx.err # NoError THEN Ret(ctx, Undef)
    ELSE IF fn.k = "value" THEN Throw(ctx, TypeError)
    ELSE Left(fn, FunctionBody(fn, args, Entered(ctx, fn, args)))

-----------------------------------------------------------------------------
(* The selectors and combiners of the tests and of the README.             *)

getA == PureSelector("a")
getB == PureSelector("b")
getStatus == PureSelector("status")
getData == PureSelector("data")
getCodes == createSelector(<<getData, Combiner("codes")>>)
getCodeA == createSelector(<<getCodes, Combiner("codeA")>>)
getSum == createSelector(<<getStatus, getCodeA, Combiner("sum")>>)

InputSelectors == {getA, getB, getStatus, getData, getCodes, getCodeA, getSum}

Combiners ==
    {Combiner("sum"), Combiner("sub"), Combiner("mul"), Combiner("name"),
     Combiner("codes"), Combiner("codeA"), Closure("assign", Str("codes")),
     Closure("delete", Str("codes")), Closure("make", Num(5))}

\* every list of at most n elements of S
SeqsUpTo(S, n) == UNION {[1..m -> S] : m \in 0..n}

-----------------------------------------------------------------------------
(* The state after the module is loaded: no key configured, the registries *)
(* empty, nothing bound.  The record last describes the last operation:    *)
(* op its name, args and st the functions and the state it was given, sel  *)
(* the selector it evaluated, val and err the value it returned or the     *)
(* error it threw, b the computed ref it went through.                     *)

RefIds == {1, 2}
InitialRefs == [r \in RefIds |-> Num(5)]

NoFn == NotCallable
NoOp == [op |-> "none", args |-> << >>, sel |-> NoFn, st |-> Undef,
         val |-> Undef, err |-> NoError, b |-> 0, key |-> "", rep |-> FALSE,
         calls |-> << >>]

Init ==
    /\ storeKey = NoKey
    /\ heap = InitialHeap
    /\ viewRegistry = << >>
    /\ getters = << >>
    /\ getterRegistry = << >>
    /\ factoryRegistry = << >>
    /\ binds = << >>
    /\ refs = InitialRefs
    /\ commits = << >>
    /\ last = NoOp

-----------------------------------------------------------------------------
(* Calling a composed selector directly, on a raw state or on a view.      *)
(* The argument list of createSelector is drawn initially, the call is the *)
(* one step.                                                               *)

\* createSelector(...args)(st)
CallComposed(args, st) ==
    LET sel == createSelector(args)
        r == Call(sel, <<st>>, Ctx(heap))
    IN  /\ last.op = "args"
        /\ heap' = r.ctx.h
        /\ last' = [op |-> "call", args |-> args, sel |-> sel, st |-> st,
                    val |-> r.val, err |-> r.ctx.err, b |-> 0, key |-> "",
                    rep |-> FALSE, calls |-> << >>]
        /\ UNCHANGED <<storeKey, viewRegistry, getters, getterRegistry,
                       factoryRegistry, binds, refs, commits>>

\* the states a selector is called on: the root of a store, raw or as a view
CallStates ==
    {Obj(RootOf(k)) : k \in StoreIds}
        \cup {Proxy(RootOf(k), StoreIndex(k) + 1) : k \in StoreIds}

\* the state trees of the calls: the initial one, and the default store's
\* after data.codes was set to null or deleted
ComposeHeaps ==
    {InitialHeap,
     RawSet(InitialHeap, DataOf(DEFAULT_KEY), "codes", Null),
     RawDelete(InitialHeap, DataOf(DEFAULT_KEY), "codes")}

InitCompose ==
    /\ storeKey = NoKey
    /\ heap \in ComposeHeaps
    /\ viewRegistry = << >>
    /\ getters = << >>
    /\ getterRegistry = << >>
    /\ factoryRegistry = << >>
    /\ binds = << >>
    /\ refs = InitialRefs
    /\ commits = << >>
    /\ \E ins \in SeqsUpTo(InputSelectors, MaxInputs), c \in Combiners :
          last = [NoOp EXCEPT !.op = "args", !.args = ins \o <<c>>]

NextCompose == \E st \in CallStates : CallComposed(last.args, st)

SpecCompose == InitCompose /\ [][NextCompose]_vars

-----------------------------------------------------------------------------
(* C1: the selector createSelector(s1, ..., sn, c) returns, applied to a   *)
(* state, exactly c(s1(state), ..., sn(state)), each input's result at the *)
(* position of its selector, whatever the nesting depth of the inputs:     *)
(* same value, same error, same state tree afterwards.                     *)

RECURSIVE InputResults(_, _, _)
\* <<s1(state), ..., sn(state)>>, evaluated from left to right
InputResults(selectors, state, ctx) ==
    IF selectors = << >> THEN Ret(ctx, << >>)
    ELSE LET r == Call(Head(selectors), <<state>>, ctx)
             rest == InputResults(Tail(selectors), state, r.ctx)
         IN  Ret(rest.ctx, <<r.val>> \o rest.val)

\* c(s1(state), ..., sn(state)) for the argument list <<s1, ..., sn, c>>
Combined(args, state, h) ==
    LET n == Len(args) - 1
        a == InputResults(SubSeq(args, 1, n), state, Ctx(h))
    IN  Call(args[n + 1], a.val, a.ctx)

C1_CompositionCorrect ==
    [][(last'.op = "call" /\ Len(last'.args) >= 2) =>
          LET e == Combined(last'.args, last'.st, heap)
          IN  /\ last'.val = e.val
              /\ last'.err = e.ctx.err
              /\ heap' = e.ctx.h]_vars

\* a selector over two inputs, one of them composed three deep, returned a
\* number that depends on the order of its inputs
C1_Witness ==
    /\ last.op = "call"
    /\ last.args = <<getSum, getB, Combiner("sub")>>
    /\ last.st.p > 0
    /\ last.err = NoError
    /\ last.val = Num(1)

-----------------------------------------------------------------------------
(* The registries.  A Map is a function; its keys are its domain.          *)

MapHas(m, key) == key \in DOMAIN m
MapSet(m, key, v) ==
    [x \in DOMAIN m \cup {key} |-> IF x = key THEN v ELSE m[x]]
EmptyMap == << >>

\* getImmutableState(state) of the store `store`, called while the configured
\* key is `key`: the Proxy saved under the key, built over this state when
\* none is saved yet
getImmutableState(registry, key, store) ==
    LET k == IF key = NoKey THEN DEFAULT_KEY ELSE key
    IN  IF MapHas(registry, k)
        THEN [registry |-> registry, state |-> registry[k]]
        ELSE LET view == Proxy(RootOf(store), StoreIndex(k) + 1)
             IN  [registry |-> MapSet(registry, k, view), state |-> view]

\* checkImmutability(value)
checkImmutability(v) == Typeof(v) = "object" /\ v.t # "null"

\* the selector factories of the tests:
\*   createGetMultiplication = c => createSelector(getA, getB, (a, b) => a * b * c)
\*   createGetData = hasAccess => state => hasAccess ? state.data : null
ApplyFactory(factory, argsValues) ==
    CASE factory = "createGetMultiplication" ->
            createSelector(<<getA, getB, Closure("mulc", Arg(argsValues, 1))>>)
      [] factory = "createGetData" -> Closure("dataIf", Arg(argsValues, 1))
      [] OTHER ->
            \* field => createSelector(getData, data => { <factory> data[field] })
            createSelector(<<getData, Closure(factory, Arg(argsValues, 1))>>)

Factories == {"createGetMultiplication", "createGetData"}
EditFactories == {"assign", "delete", "define"}

\* the getter closures: of useSelector over (selector, store), of
\* useSelectorCreator over (selectorFactory, args, store)
SelectorGetter(selector, store) ==
    [kind |-> "selector", sel |-> selector, store |-> store,
     factory |-> "", args |-> << >>]
FactoryGetter(factory, args, store) ==
    [kind |-> "factory", sel |-> NoFn, store |-> store,
     factory |-> factory, args |-> args]

\* isRef(arg) ? arg.value : arg
Unref(arg, rf) == IF isRef(arg) THEN rf[arg.n] ELSE arg

\* a getter that returns the selector's result as it is
ReturnView(r) == r

\* checkImmutability(selectorResult) ? selectorResult[UNWRAP_KEY] : selectorResult
\* for the outcome r of selector(state); an error thrown by the selector
\* passes through
Unwrapped(r) ==
    IF r.ctx.err = NoError /\ checkImmutability(r.val)
    THEN Get(r.ctx, r.val, UNWRAP_KEY)
    ELSE r

\* a getter that catches what the selector throws and returns undefined
GetterOutcomeCatching(gs, selector, out) ==
    [registry |-> gs.registry, sel |-> selector, st |-> gs.state,
     h |-> out.ctx.h, val |-> out.val, err |-> NoError]

GetterOutcome(gs, selector, out) ==
    [registry |-> gs.registry, sel |-> selector, st |-> gs.state,
     h |-> out.ctx.h, val |-> out.val, err |-> out.ctx.err]

\* The body of a getter: the state as a view, the selector (made by the
\* factory from the current values of the arguments) applied to it, and an
\* object result replaced by what its unwrap key yields.
EvalGetter(g, h, registry, key, rf) ==
    LET gs == getImmutableState(registry, key, g.store)
        selector ==
            IF g.kind = "selector" THEN g.sel
            ELSE ApplyFactory(g.factory,
                              [i \in 1..Len(g.args) |-> Unref(g.args[i], rf)])
    IN  GetterOutcome(gs, selector,
                      Unwrapped(Call(selector, <<gs.state>>, Ctx(h))))

-----------------------------------------------------------------------------
(* The store (Vuex): commit applies the mutation registered under the      *)
(* type.  The mutations are those of the tests: SET_A / setA take          *)
(* [b, a] and set state.a = a + b, or take a and set state.a = a.          *)

Payload(isList, items) == [list |-> isList, items |-> items]

Mutations == {"SET_A", "setA"}

\* a mutation whose handler throws:  failA: () => { throw new Error("failed") }
ThrowingMutations == {"failA"}
StoreError == "Error: failed"

\* what store.commit(type, payload) throws: what the handler throws
CommitError(type) ==
    IF type.t = "string" /\ type.s \in ThrowingMutations THEN StoreError
    ELSE NoError

\* what store.commit(type, payload) throws on the state tree h: what the
\* handler throws, a TypeError when it assigns to a state.a that is not
\* writable
CommitThrows(h, store, type) ==
    IF CommitError(type) # NoError THEN CommitError(type)
    ELSE IF type.t = "string" /\ type.s \in Mutations
            /\ ~IsWritable(h, RootOf(store), "a")
    THEN TypeError
    ELSE NoError

\* the state tree after store.commit(type, payload); an unknown type is
\* reported on the console and changes nothing, an assignment that throws
\* changes nothing
StoreCommit(h, store, type, payload) ==
    IF type.t # "string" \/ type.s \notin Mutations THEN h
    ELSE IF ~IsWritable(h, RootOf(store), "a") THEN h
    ELSE IF payload.list
         THEN RawSet(h, RootOf(store), "a",
                     Add(Arg(payload.items, 2), Arg(payload.items, 1)))
         ELSE RawSet(h, RootOf(store), "a", payload.items[1])

-----------------------------------------------------------------------------
(* useStoreInjectionKey, useSelector, useSelectorCreator, and the reads    *)
(* and assignments of the computed refs they return.                       *)
(*                                                                         *)
(* A computed ref is a record: gid the getter it reads through, writable   *)
(* whether it has a setter, mutation, extra and store what the setter      *)
(* closes over, prev its previousValue; kind, sel, factory and args keep   *)
(* the call that made it, built whether that call constructed a getter,    *)
(* hist the values assigned to it so far.                                  *)
(* A commit is a record: store, type and payload as store.commit received  *)
(* them; b the computed ref whose setter called it, at the position in     *)
(* hist of the assignment that did.                                        *)
(* For an assignment to a field of an object a read returned, last keeps   *)
(* the object in st, the field in key and the value in val.  For a read,   *)
(* rep tells that the operation before it was a read of the same ref.      *)
(* For the invocations of a selector, calls is the log of the function     *)
(* calls of all of them, in order.                                         *)

\* useStoreInjectionKey(storeKey)
UseStoreInjectionKey(key) ==
    /\ storeKey' = key
    /\ last' = [NoOp EXCEPT !.op = "useStoreInjectionKey"]
    /\ UNCHANGED <<heap, viewRegistry, getters, getterRegistry,
                   factoryRegistry, binds, refs, commits>>

\* useSelector that constructs and stores a getter on every call
RegisterGetterAlways(registry, gs, selector, store) ==
    [getters |-> Append(gs, SelectorGetter(selector, store)),
     registry |-> MapSet(registry, selector, Len(gs) + 1),
     built |-> TRUE]

\* useSelector, lines 179-190: the getter of the selector, constructed and
\* stored when the registry has none for it
RegisterGetter(registry, gs, selector, store) ==
    IF ~MapHas(registry, selector)
    THEN [getters |-> Append(gs, SelectorGetter(selector, store)),
          registry |-> MapSet(registry, selector, Len(gs) + 1),
          built |-> TRUE]
    ELSE [getters |-> gs, registry |-> registry, built |-> FALSE]

\* useSelector(selector, mutation, ...additionalPayload); mutation is
\* undefined when the call passes none
UseSelector(selector, mutation, additionalPayload) ==
    LET store == useStore(storeKey)
        reg == RegisterGetter(getterRegistry, getters, selector, store)
        bind == [kind |-> "selector", sel |-> selector, factory |-> "",
                 args |-> << >>, gid |-> reg.registry[selector],
                 built |-> reg.built, writable |-> ToBoolean(mutation),
                 mutation |-> mutation, extra |-> additionalPayload,
                 prev |-> Undef, store |-> store, hist |-> << >>]
    IN  /\ Len(binds) < MaxBinds
        /\ getters' = reg.getters
        /\ getterRegistry' = reg.registry
        /\ binds' = Append(binds, bind)
        /\ last' = [NoOp EXCEPT !.op = "useSelector", !.sel = selector,
                                !.b = Len(binds) + 1]
        /\ UNCHANGED <<storeKey, heap, viewRegistry, factoryRegistry, refs,
                       commits>>

OBJECT_TYPES_TYPEOF_VALUES == {"object", "function"}

\* args.some(arg => OBJECT_TYPES_TYPEOF_VALUES.includes(typeof arg) && !isRef(arg))
shouldAlwaysRecompute(args) ==
    \E i \in 1..Len(args) :
        Typeof(args[i]) \in OBJECT_TYPES_TYPEOF_VALUES /\ ~isRef(args[i])

\* args.map(arg => isRef(arg) ? arg.value : arg).toString()
ArgsKey(args, rf) == Join([i \in 1..Len(args) |-> Unref(args[i], rf)])

\* useSelectorCreator that constructs a getter on every call and stores it
\* under the key, replacing the one stored there
RegisterFactoryGetterAlways(registry, gs, factory, args, store, rf) ==
    LET key == ArgsKey(args, rf)
        getterRegistry_ == IF MapHas(registry, factory) THEN registry[factory]
                           ELSE EmptyMap
    IN  [getters |-> Append(gs, FactoryGetter(factory, args, store)),
         registry |-> MapSet(registry, factory,
                             MapSet(getterRegistry_, key, Len(gs) + 1)),
         gid |-> Len(gs) + 1, built |-> TRUE]

\* useSelectorCreator, lines 241-274: the registry of the factory, made when
\* there is none, and the getter for the key, constructed when the call is
\* not cacheable or the registry has none for the key, stored when cacheable
RegisterFactoryGetter(registry, gs, factory, args, store, rf) ==
    LET recompute == shouldAlwaysRecompute(args)
        key == ArgsKey(args, rf)
        withFactory == IF MapHas(registry, factory) THEN registry
                       ELSE MapSet(registry, factory, EmptyMap)
        getterRegistry_ == withFactory[factory]
        get == FactoryGetter(factory, args, store)
    IN  IF recompute
        THEN [getters |-> Append(gs, get), registry |-> withFactory,
              gid |-> Len(gs) + 1, built |-> TRUE]
        ELSE IF ~MapHas(getterRegistry_, key)
        THEN [getters |-> Append(gs, get),
              registry |-> MapSet(withFactory, factory,
                                  MapSet(getterRegistry_, key, Len(gs) + 1)),
              gid |-> Len(gs) + 1, built |-> TRUE]
        ELSE [getters |-> gs, registry |-> withFactory,
              gid |-> getterRegistry_[key], built |-> FALSE]

\* useSelectorCreator(selectorFactory, ...args)
UseSelectorCreator(factory, args) ==
    LET store == useStore(storeKey)
        reg == RegisterFactoryGetter(factoryRegistry, getters, factory, args,
                                     store, refs)
        bind == [kind |-> "factory", sel |-> NoFn, factory |-> factory,
                 args |-> args, gid |-> reg.gid, built |-> reg.built,
                 writable |-> FALSE, mutation |-> Undef, extra |-> << >>,
                 prev |-> Undef, store |-> store, hist |-> << >>]
    IN  /\ Len(binds) < MaxBinds
        /\ getters' = reg.getters
        /\ factoryRegistry' = reg.registry
        /\ binds' = Append(binds, bind)
        /\ last' = [NoOp EXCEPT !.op = "useSelectorCreator",
                                !.b = Len(binds) + 1]
        /\ UNCHANGED <<storeKey, heap, viewRegistry, getterRegistry, refs,
                       commits>>

\* ref.value = v on a Vue ref of a component
SetRef(r, v) ==
    /\ refs[r] # v
    /\ refs' = [refs EXCEPT ![r] = v]
    /\ last' = [NoOp EXCEPT !.op = "setRef"]
    /\ UNCHANGED <<storeKey, heap, viewRegistry, getters, getterRegistry,
                   factoryRegistry, binds, commits>>

\* what a read of the computed ref b does to the state tree, the view
\* registry and the record of the last operation
ReadOutcome(b, r) ==
    /\ heap' = r.h
    /\ viewRegistry' = r.registry
    /\ last' = [NoOp EXCEPT !.op = "read", !.sel = r.sel, !.st = r.st,
                            !.val = r.val, !.err = r.err, !.b = b,
                            !.rep = (last.op = "read" /\ last.b = b)]

\* computedRef.value, read, when computed runs the getter it was handed
\* (lines 209, 213, 269, 274): at the first read of the ref and at a read
\* after something the getter read has changed.  Whether computed runs the
\* getter at another read is computed's matter: the read it answers from
\* its cache is ReadCached.
Read(b) ==
    /\ b \in 1..Len(binds)
    /\ ReadOutcome(b, EvalGetter(getters[binds[b].gid], heap, viewRegistry,
                                 storeKey, refs))
    /\ UNCHANGED <<storeKey, getters, getterRegistry, factoryRegistry,
                   binds, refs, commits>>

\* computedRef.value, read again directly after a read of the same ref, with
\* nothing changed in between, when computed answers from its cache: the
\* getter is not called and no code of the repository runs.  The value is
\* the one the getter returned; after a getter that threw it is the value
\* computed held before, undefined for a ref whose getter has never
\* returned, and nothing is thrown.
ReadCached(b) ==
    /\ b \in 1..Len(binds)
    /\ last.op \in {"read", "cached"} /\ last.b = b
    /\ last' = [NoOp EXCEPT !.op = "cached", !.sel = last.sel,
                            !.st = last.st, !.b = b, !.rep = TRUE,
                            !.val = IF last.err = NoError THEN last.val
                                    ELSE Undef]
    /\ UNCHANGED <<storeKey, heap, viewRegistry, getters, getterRegistry,
                   factoryRegistry, binds, refs, commits>>

\* computedRef.value[key] = v in a component, on the object the last read
\* returned
AssignField(key, v) ==
    /\ last.op = "read" /\ last.err = NoError /\ last.val.t = "object"
    /\ heap' = Set(Ctx(heap), last.val, key, v).h
    /\ last' = [NoOp EXCEPT !.op = "assignField", !.st = last.val,
                            !.key = key, !.val = v, !.b = last.b,
                            !.err = Set(Ctx(heap), last.val, key, v).err]
    /\ UNCHANGED <<storeKey, viewRegistry, getters, getterRegistry,
                   factoryRegistry, binds, refs, commits>>

\* the setter's payload, lines 195-202, with the value put first
SetterPayloadUnshift(additionalPayload, value) ==
    IF Len(additionalPayload) # 0
    THEN Payload(TRUE, <<value>> \o additionalPayload)
    ELSE Payload(FALSE, <<value>>)

\* the setter's payload, lines 195-202: a copy of additionalPayload with the
\* value pushed, or the value alone
SetterPayload(additionalPayload, value) ==
    IF Len(additionalPayload) # 0
    THEN Payload(TRUE, Append(SubSeq(additionalPayload, 1,
                                     Len(additionalPayload)), value))
    ELSE Payload(FALSE, <<value>>)

\* the commit type with the function itself in place of its name
MutationTypeRaw(mutation) == mutation

\* typeof mutation === "function" ? mutation.name : mutation
MutationType(mutation) ==
    IF Typeof(mutation) = "function" THEN Str(mutation.s) ELSE mutation

\* the number of assignments made so far, through all computed refs
Assigned == LET RECURSIVE Sum(_)
                Sum(i) == IF i = 0 THEN 0 ELSE Len(binds[i].hist) + Sum(i - 1)
            IN  Sum(Len(binds))

\* a setter that pushes the value to additionalPayload itself, without the
\* copy of line 200
AdditionalPayloadPushed(additionalPayload, value) ==
    IF Len(additionalPayload) # 0 THEN Append(additionalPayload, value)
    ELSE additionalPayload

\* the additionalPayload the setter closes over, after the setter ran with
\* value: the push of line 201 is made to the copy of line 200
AdditionalPayload(additionalPayload, value) == additionalPayload

\* computedRef.value = value: the setter of a writable ref runs (lines
\* 193-207): previousValue is set, then store.commit is called, and what it
\* throws passes to the assigner; a ref without a setter drops the
\* assignment with a warning
Assign(b, value) ==
    LET bind == binds[b]
        recorded == [bind EXCEPT !.hist = Append(@, value)]
        payload == SetterPayload(bind.extra, value)
        type == MutationType(bind.mutation)
    IN  /\ b \in 1..Len(binds)
        /\ Assigned < MaxAssigns
        /\ IF bind.writable /\ ~StrictEq(value, bind.prev)
           THEN /\ binds' = [binds EXCEPT ![b] =
                              [recorded EXCEPT
                                  !.prev = value,
                                  !.extra = AdditionalPayload(bind.extra,
                                                              value)]]
                /\ commits' = Append(commits,
                                     [store |-> bind.store, type |-> type,
                                      payload |-> payload, b |-> b,
                                      at |-> Len(bind.hist) + 1])
                /\ heap' = StoreCommit(heap, bind.store, type, payload)
           ELSE /\ binds' = [binds EXCEPT ![b] = recorded]
                /\ UNCHANGED <<commits, heap>>
        /\ last' = [NoOp EXCEPT !.op = "assign", !.val = value, !.b = b,
                                !.err = IF bind.writable
                                           /\ ~StrictEq(value, bind.prev)
                                        THEN CommitThrows(heap, bind.store,
                                                          type)
                                        ELSE NoError]
        /\ UNCHANGED <<storeKey, viewRegistry, getters, getterRegistry,
                       factoryRegistry, refs>>

-----------------------------------------------------------------------------
(* Selectors that try to change the state they are given, at the root      *)
(* (a pure selector), one level down and two levels down.                  *)

EditOps == {"assign", "delete", "define"}
Depths == {0, 1, 2}

\* the selector applying op at the given depth: to state.a, to
\* state.data.codes, to state.data.codes.a
EditAt(op, depth) ==
    CASE depth = 0 -> Closure(op, Str("a"))
      [] depth = 1 -> createSelector(<<getData, Closure(op, Str("codes"))>>)
      [] OTHER -> createSelector(<<getCodes, Closure(op, Str("a"))>>)

getList == createSelector(<<getData, Combiner("list")>>)
pushToList == createSelector(<<getList, Closure("push", Num(1))>>)
popFromList == createSelector(<<getList, Combiner("pop")>>)
readDataTwice == Closure("twice", Str("data"))

ViewSelectors ==
    {EditAt(op, d) : op \in EditOps, d \in Depths}
        \cup {pushToList, popFromList, getCodeA, getData, getCodes,
              readDataTwice}

\* what a selector does to the data it reads: the body of its combiner
BodyOf(sel) ==
    IF sel.k = "composed" /\ sel.comb # << >> THEN sel.comb[1].f ELSE sel.f

NextView ==
    \/ \E key \in {NoKey, "k1"} : UseStoreInjectionKey(key)
    \/ \E sel \in ViewSelectors : UseSelector(sel, Undef, << >>)
    \/ \E f \in EditFactories : UseSelectorCreator(f, <<Str("codes")>>)
    \/ \E b \in 1..Len(binds) : Read(b)

SpecView == Init /\ [][NextView]_vars

-----------------------------------------------------------------------------
(* C2: assigning a field through a read-only view, the top-level one or a  *)
(* nested one at any depth, raises "Mutations in selectors are not         *)
(* allowed." and leaves the raw state unchanged.  Stated of every view     *)
(* over the state tree of every reachable state, and of every read whose   *)
(* selector assigns to a view it was handed.                               *)

RECURSIVE NavFrom(_, _, _)
\* o[path[1]][path[2]]...
NavFrom(ctx, o, path) ==
    IF path = << >> THEN Ret(ctx, o)
    ELSE LET r == Get(ctx, o, Head(path))
         IN  NavFrom(r.ctx, r.val, Tail(path))

ViewPaths == {<< >>, <<"data">>, <<"data", "codes">>, <<"data", "list">>}
WrittenFields == {"a", "data", "codes", "0", "length", "other"}

IsView(v) == v.t = "object" /\ v.p > 0

C2_EveryViewRejectsWrites ==
    \A k \in StoreIds, path \in ViewPaths, f \in WrittenFields :
        LET node == NavFrom(Ctx(heap), Proxy(RootOf(k), StoreIndex(k) + 1), path)
            c == Set(node.ctx, node.val, f, Null)
        IN  IsView(node.val) => (c.err = MutationError /\ c.h = heap)

\* the data the body of selector sel receives when sel is applied to st
ReceivedBy(sel, st, h) ==
    IF sel.k = "composed"
    THEN Arg(InputResults(sel.inputs, st, Ctx(h)).val, 1)
    ELSE st

C2_AssigningReadRaises ==
    (last'.op = "read" /\ BodyOf(last'.sel) = "assign"
        /\ IsView(ReceivedBy(last'.sel, last'.st, heap)))
    => (last'.err = MutationError /\ heap' = heap)

C2_WriteIntercepted ==
    [](C2_EveryViewRejectsWrites) /\ [][C2_AssigningReadRaises]_vars

\* a read whose selector assigned two levels down raised the error
C2_Witness ==
    /\ last.op = "read"
    /\ last.sel = EditAt("assign", 2)
    /\ last.err = MutationError

-----------------------------------------------------------------------------
(* C3: evaluating a selector through an accessor of useSelector or         *)
(* useSelectorCreator never changes the store's raw state, whatever the    *)
(* selector does to the view: assign, delete, define a property, call a    *)
(* mutating method.                                                        *)

C3_ReadKeepsRawState == [][last'.op = "read" => heap' = heap]_vars

-----------------------------------------------------------------------------
(* Binding selectors and selector factories in components: the registries. *)

BoundSelectors == {getA, getData}

\* the arguments of the factories: primitives, a ref, an object literal and
\* a function (the README's someRef, {a: 5}, handleSomething)
FactoryArgValues ==
    {Num(5), Str("5"), Null, RefTo(1), Literal(1), Func("handleSomething")}

\* the values a component gives its ref
RefValues == {Num(5), Str("5"), Literal(1)}

NextRegistry ==
    \/ \E key \in {NoKey, "k1"} : UseStoreInjectionKey(key)
    \/ \E sel \in BoundSelectors, m \in {Undef, Str("SET_A")} :
          UseSelector(sel, m, << >>)
    \/ \E f \in Factories, args \in SeqsUpTo(FactoryArgValues, MaxFactoryArgs) :
          UseSelectorCreator(f, args)
    \/ \E v \in RefValues : SetRef(1, v)

SpecRegistry == Init /\ [][NextRegistry]_vars

-----------------------------------------------------------------------------
(* C4: however often one selector reference is bound through useSelector,  *)
(* its getter is built once: the first bind constructs and stores it, and  *)
(* every later bind gets that same getter and constructs none.             *)

SelectorBinds == {i \in 1..Len(binds) : binds[i].kind = "selector"}

C4_GetterBuiltOnce ==
    \A i \in SelectorBinds :
        LET sel == binds[i].sel
            first == \A j \in SelectorBinds : j < i => binds[j].sel # sel
        IN  /\ MapHas(getterRegistry, sel)
            /\ binds[i].gid = getterRegistry[sel]
            /\ getters[binds[i].gid] = SelectorGetter(sel, getters[binds[i].gid].store)
            /\ binds[i].built = first
            /\ Cardinality({g \in 1..Len(getters) :
                              getters[g].kind = "selector"
                              /\ getters[g].sel = sel}) = 1

\* one selector bound twice: the second bind built nothing and reads through
\* the getter of the first
C4_Witness ==
    /\ Len(binds) >= 2
    /\ binds[1].kind = "selector" /\ binds[2].kind = "selector"
    /\ binds[1].sel = binds[2].sel
    /\ binds[1].built /\ ~binds[2].built
    /\ binds[1].gid = binds[2].gid
    /\ Len(getters) = 1

-----------------------------------------------------------------------------
(* C5: for argument lists of primitives only (number, string, boolean,     *)
(* null, undefined), two useSelectorCreator calls of a factory with equal  *)
(* lists use the same cached getter, the second building none, and calls   *)
(* with different lists get different getters.                             *)

FactoryBinds == {i \in 1..Len(binds) : binds[i].kind = "factory"}

IsPrimitive(v) ==
    v.t \in {"number", "nan", "string", "boolean", "null", "undefined"}

AllPrimitive(args) == \A i \in 1..Len(args) : IsPrimitive(args[i])

C5_PrimitiveArgsMemoized ==
    \A i, j \in FactoryBinds :
        (/\ i < j
         /\ binds[i].factory = binds[j].factory
         /\ AllPrimitive(binds[i].args)
         /\ AllPrimitive(binds[j].args))
        => IF binds[i].args = binds[j].args
           THEN binds[i].gid = binds[j].gid /\ ~binds[j].built
           ELSE binds[i].gid # binds[j].gid

-----------------------------------------------------------------------------
(* C6: a useSelectorCreator call with an argument that is an object, an    *)
(* array or a function and no ref leaves the factory registry unchanged at *)
(* both levels and returns a freshly built getter.                         *)

IsObjectValue(v) == v.t \in {"object", "literal", "array", "function"}

C6_NonCacheableCallLeavesRegistry ==
    [][(/\ last'.op = "useSelectorCreator"
        /\ \E i \in 1..Len(binds'[last'.b].args) :
              IsObjectValue(binds'[last'.b].args[i]))
       => (factoryRegistry' = factoryRegistry /\ binds'[last'.b].built)]_vars

-----------------------------------------------------------------------------
(* C7: a useSelectorCreator call passing a ref whose current value is an   *)
(* object, an array or a function is not memoized: it stores no getter     *)
(* under any signature and gets a fresh getter.                            *)

\* the signatures under which the registry holds a getter for the factory
Signatures(registry, factory) ==
    IF MapHas(registry, factory) THEN DOMAIN registry[factory] ELSE {}

C7_RefToObjectNotMemoized ==
    [][(/\ last'.op = "useSelectorCreator"
        /\ \E i \in 1..Len(binds'[last'.b].args) :
              /\ isRef(binds'[last'.b].args[i])
              /\ IsObjectValue(refs[binds'[last'.b].args[i].n]))
       => (/\ \A f \in Factories :
                 Signatures(factoryRegistry', f) = Signatures(factoryRegistry, f)
           /\ binds'[last'.b].built)]_vars

-----------------------------------------------------------------------------
(* Writable binds: assigning through a ref bound with a mutation.          *)

\* the mutation argument of useSelector: absent, a mutation's name, the
\* mutation function itself, an empty name and an anonymous function
SetterMutations ==
    {Undef, Str("setA"), Func("setA"), Str(""), Func("")}

ExtraPayloads == {<< >>, <<Num(20)>>, <<Num(20), Num(3)>>}

AssignedValues == {Undef, Num(10), Num(11), NaN}

NextSetter ==
    \/ \E m \in SetterMutations, extra \in ExtraPayloads :
          UseSelector(getA, m, extra)
    \/ \E b \in 1..Len(binds), v \in AssignedValues : Assign(b, v)

SpecSetter == Init /\ [][NextSetter]_vars

WritableBinds == {b \in 1..Len(binds) : binds[b].writable}

\* the commits issued by bind b for the assignments i..j of its history
CommitsFor(b, i, j) ==
    {c \in 1..Len(commits) : commits[c].b = b /\ commits[c].at \in i..j}

-----------------------------------------------------------------------------
(* C8: assigning the same value k >= 1 times in a row through one writable *)
(* bind issues exactly one store commit.                                   *)

\* assignments i..j of bind b are one value assigned j - i + 1 times in a
\* row, beginning where the assigned value changes (or at the first one)
IsRun(b, i, j) ==
    LET hist == binds[b].hist
    IN  /\ 1 <= i /\ i <= j /\ j <= Len(hist)
        /\ \A k \in i..j : hist[k] = hist[i]
        /\ (i > 1 => hist[i - 1] # hist[i])

C8_OneCommitPerRun ==
    \A b \in WritableBinds :
        \A i, j \in 1..Len(binds[b].hist) :
            IsRun(b, i, j) => Cardinality(CommitsFor(b, i, j)) = 1

-----------------------------------------------------------------------------
(* C9: a commit of value v by a writable bind created with extra arguments *)
(* e1..em (m >= 1) carries the list [e1, ..., em, v]; with no extra        *)
(* arguments it carries v itself, not a list.                              *)

C9_PayloadValueLast ==
    \A c \in 1..Len(commits) :
        LET bind == binds[commits[c].b]
            v == bind.hist[commits[c].at]
        IN  IF Len(bind.extra) >= 1
            THEN commits[c].payload = Payload(TRUE, bind.extra \o <<v>>)
            ELSE commits[c].payload = Payload(FALSE, <<v>>)

\* a commit with two extra arguments before the value, and one with the
\* bare value
C9_Witness ==
    /\ \E c \in 1..Len(commits) :
          commits[c].payload = Payload(TRUE, <<Num(20), Num(3), Num(10)>>)
    /\ \E c \in 1..Len(commits) :
          commits[c].payload = Payload(FALSE, <<Num(11)>>)

-----------------------------------------------------------------------------
(* C10: a writable bind commits under the given string when the mutation   *)
(* was given as a string and under the function's own name when it was     *)
(* given as a function; a bind with the function and a bind with its name  *)
(* produce the same commits for the same assignments.                      *)

RECURSIVE CommitsOf(_, _)
\* the (type, payload) sequence committed by bind b among the first n commits
CommitsOf(b, n) ==
    IF n = 0 THEN << >>
    ELSE IF commits[n].b = b
         THEN Append(CommitsOf(b, n - 1),
                     <<commits[n].type, commits[n].payload>>)
         ELSE CommitsOf(b, n - 1)

C10_CommitType ==
    /\ \A c \in 1..Len(commits) :
          LET m == binds[commits[c].b].mutation
          IN  /\ m.t = "string" => commits[c].type = m
              /\ m.t = "function" => commits[c].type = Str(m.s)
    /\ \A b1, b2 \in WritableBinds :
          (/\ binds[b1].mutation.t = "function"
           /\ binds[b2].mutation = Str(binds[b1].mutation.s)
           /\ binds[b1].extra = binds[b2].extra
           /\ binds[b1].hist = binds[b2].hist)
          => CommitsOf(b1, Len(commits)) = CommitsOf(b2, Len(commits))

\* one bind with the function setA and one with the name "setA" have each
\* committed the same assignment
C10_Witness ==
    \E b1, b2 \in WritableBinds :
        /\ binds[b1].mutation = Func("setA")
        /\ binds[b2].mutation = Str("setA")
        /\ binds[b1].extra = binds[b2].extra
        /\ binds[b1].hist = binds[b2].hist
        /\ CommitsOf(b1, Len(commits)) # << >>
        /\ CommitsOf(b2, Len(commits)) = CommitsOf(b1, Len(commits))

-----------------------------------------------------------------------------
(* C11: for every raw object o reachable from the root state at any depth, *)
(* reading the unwrap key on the view node obtained for o returns o itself *)
(* (the same reference), never a view and never a copy.                    *)

\* the top-level view of the store registered under k
TopView(k) == Proxy(RootOf(k), StoreIndex(k) + 1)

C11_EveryViewUnwrapsToRaw ==
    \A k \in StoreIds, path \in ViewPaths :
        LET node == NavFrom(Ctx(heap), TopView(k), path)
            raw == NavFrom(Ctx(heap), Obj(RootOf(k)), path)
            u == Get(node.ctx, node.val, UNWRAP_KEY)
        IN  IsView(node.val)
            => /\ u.val = raw.val
               /\ u.val = Obj(node.val.n)
               /\ u.ctx.err = NoError /\ u.ctx.h = heap

\* a read whose selector returned a view node hands out the raw object the
\* node stands for
C11_ReadUnwraps ==
    (last'.op = "read" /\ last'.err = NoError
        /\ IsView(Call(last'.sel, <<last'.st>>, Ctx(heap)).val))
    => last'.val = Obj(Call(last'.sel, <<last'.st>>, Ctx(heap)).val.n)

C11_UnwrapFidelity ==
    [](C11_EveryViewUnwrapsToRaw) /\ [][C11_ReadUnwraps]_vars

\* a read returned the raw codes object of a store, two levels down, after
\* its selector was handed a nested view of it
C11_Witness ==
    /\ last.op = "read"
    /\ last.err = NoError
    /\ last.sel = getCodes
    /\ IsView(last.st)
    /\ last.val = Obj(CodesOf("k1"))
    /\ RawGet(heap, DataOf("k1"), "codes") = last.val

-----------------------------------------------------------------------------
(* Components that change an object they read through a computed ref, as   *)
(* the tests do with data.value.codes.a = 3.                               *)

OutsideSelectors == {getData, getCodes}
OutsideFactoryArgs == {Bool(TRUE), Bool(FALSE), RefTo(1)}
\* value.name = "B" and value.a = 3
OutsideAssignments == {<<"name", Str("B")>>, <<"a", Num(3)>>}

NextOutside ==
    \/ \E key \in {NoKey, "k1"} : UseStoreInjectionKey(key)
    \/ \E sel \in OutsideSelectors : UseSelector(sel, Undef, << >>)
    \/ \E a \in OutsideFactoryArgs : UseSelectorCreator("createGetData", <<a>>)
    \/ \E b \in 1..Len(binds) : Read(b)
    \/ \E a \in OutsideAssignments : AssignField(a[1], a[2])

SpecOutside == Init /\ [][NextOutside]_vars

-----------------------------------------------------------------------------
(* C12: when a selector's result is an object node of the state, the       *)
(* accessor (of useSelector or of useSelectorCreator) returns the raw      *)
(* stored object, not a view: assigning a field of it outside any selector *)
(* raises no error and changes the raw state, and the next read through    *)
(* the accessor returns the changed value.                                 *)

C12_ReadReturnsRaw ==
    (last'.op = "read" /\ last'.err = NoError /\ checkImmutability(last'.val))
    => (last'.val.p = 0 /\ last'.val.n \in ObjIds)

C12_AssignChangesRawState ==
    last'.op = "assignField"
    => /\ last'.err = NoError
       /\ heap' = RawSet(heap, last'.st.n, last'.key, last'.val)

C12_NextReadSeesChange ==
    (last.op = "assignField" /\ last'.op = "read" /\ last'.b = last.b)
    => /\ last'.err = NoError
       /\ last'.val = last.st
       /\ RawGet(heap', last'.val.n, last.key) = last.val

C12_ResultIsStoredObject ==
    [][C12_ReadReturnsRaw /\ C12_AssignChangesRawState
          /\ C12_NextReadSeesChange]_vars

\* a ref made by useSelectorCreator is read again after a field of the data
\* object it returned was assigned, and returns that object with the change
C12_Witness ==
    /\ last.op = "read"
    /\ binds[last.b].kind = "factory"
    /\ last.val = Obj(DataOf("k1"))
    /\ RawGet(heap, last.val.n, "name") = Str("B")

\* the same for a ref made by useSelector
C12_WitnessSelector ==
    /\ last.op = "read"
    /\ binds[last.b].kind = "selector"
    /\ last.val = Obj(CodesOf(DEFAULT_KEY))
    /\ RawGet(heap, last.val.n, "a") = Num(3)

-----------------------------------------------------------------------------
(* C13: after useStoreInjectionKey(k), every later useSelector or          *)
(* useSelectorCreator bind yields a value evaluated against the state of   *)
(* the store registered under k, also when the same selector (or factory   *)
(* and arguments) was bound earlier while another key was active.          *)

\* the selector the call that made computed ref b asked for
SelectorOf(b) ==
    IF binds[b].kind = "selector" THEN binds[b].sel
    ELSE ApplyFactory(binds[b].factory,
                      [i \in 1..Len(binds[b].args) |->
                          Unref(binds[b].args[i], refs)])

\* that selector evaluated against the state of the store that was
\* registered under the key active when b was made
ValueUnderBindKey(b) ==
    Unwrapped(Call(SelectorOf(b), <<TopView(binds[b].store)>>, Ctx(heap))).val

C13_BindReadsKeyedStore ==
    [][(last'.op = "read" /\ useStore(storeKey) = binds[last'.b].store)
       => last'.val = ValueUnderBindKey(last'.b)]_vars

-----------------------------------------------------------------------------
(* C14: read-only binds and writable binds use two distinct registries: a  *)
(* selector bound once without a mutation and once with one gets two       *)
(* independently cached accessors, and a bind of one kind never finds or   *)
(* reuses the entry created by a bind of the other kind.                   *)

C14_SeparateRegistries ==
    \A i, j \in SelectorBinds :
        (binds[i].sel = binds[j].sel /\ binds[i].writable # binds[j].writable)
        => /\ binds[i].gid # binds[j].gid
           /\ \E k \in SelectorBinds :
                 /\ binds[k].sel = binds[i].sel
                 /\ binds[k].writable = binds[i].writable
                 /\ binds[k].built

-----------------------------------------------------------------------------
(* createSelector called with and without a combiner: the call, then the   *)
(* evaluation of what it returned.                                         *)

\* argument lists with a combiner, with a last argument that is no
\* function, and the empty list
ComposeArgs ==
    {<< >>}
        \cup {ins \o <<c>> : ins \in SeqsUpTo(InputSelectors, MaxInputs),
                             c \in {Combiner("sum"), NotCallable}}

\* the list has no combiner: it is empty or its last element is no function
NoCombiner(args) == Len(args) = 0 \/ args[Len(args)].k = "value"

InitInvalid ==
    /\ storeKey = NoKey
    /\ heap \in ComposeHeaps
    /\ viewRegistry = << >>
    /\ getters = << >>
    /\ getterRegistry = << >>
    /\ factoryRegistry = << >>
    /\ binds = << >>
    /\ refs = InitialRefs
    /\ commits = << >>
    /\ \E args \in ComposeArgs : last = [NoOp EXCEPT !.op = "args", !.args = args]

\* createSelector(...args): lines 127-139 take the last argument off the
\* list and return the closure; nothing is tested and nothing is thrown
Compose(args) ==
    /\ last.op = "args"
    /\ last' = [NoOp EXCEPT !.op = "createSelector", !.args = args,
                            !.sel = createSelector(args)]
    /\ UNCHANGED <<storeKey, heap, viewRegistry, getters, getterRegistry,
                   factoryRegistry, binds, refs, commits>>

\* selector(st) for the selector the call returned
CallCreated(st) ==
    /\ last.op = "createSelector"
    /\ last.err = NoError
    /\ heap' = Call(last.sel, <<st>>, Ctx(heap)).ctx.h
    /\ last' = [last EXCEPT !.op = "call", !.st = st,
                            !.val = Call(last.sel, <<st>>, Ctx(heap)).val,
                            !.err = Call(last.sel, <<st>>, Ctx(heap)).ctx.err]
    /\ UNCHANGED <<storeKey, viewRegistry, getters, getterRegistry,
                   factoryRegistry, binds, refs, commits>>

NextInvalid ==
    \/ Compose(last.args)
    \/ \E st \in CallStates : CallCreated(st)

SpecInvalid == InitInvalid /\ [][NextInvalid]_vars

-----------------------------------------------------------------------------
(* C15: createSelector called with no arguments, or with a last argument   *)
(* that is not callable, raises an error at the createSelector call        *)
(* itself: no selector is returned, and the failure is not deferred to the *)
(* first evaluation of a returned selector.                                *)

C15_InvalidCompositionRaisedAtCall ==
    [][(last'.op = "createSelector" /\ NoCombiner(last'.args))
       => (last'.err # NoError /\ last'.sel = NoFn)]_vars

-----------------------------------------------------------------------------
(* Refs of selectors that assign to the data they receive, read and read   *)
(* again: a read directly after a read of the same ref either runs the     *)
(* getter again or is answered from the cache of computed.                 *)

NextReread ==
    \/ \E key \in {NoKey, "k1"} : UseStoreInjectionKey(key)
    \/ \E d \in Depths : UseSelector(EditAt("assign", d), Undef, << >>)
    \/ UseSelectorCreator("assign", <<Str("codes")>>)
    \/ \E b \in 1..Len(binds) : Read(b)
    \/ \E b \in 1..Len(binds) : ReadCached(b)

SpecReread == Init /\ [][NextReread]_vars

-----------------------------------------------------------------------------
(* C16: when a selector's combiner assigns to a field of the data it       *)
(* received and the selector is evaluated through a read-only bind, the    *)
(* evaluation raises the mutation error to the reader, yields no value,    *)
(* issues no commit and leaves the raw state unchanged; nothing catches or *)
(* retries it, and reading the bound value again raises the same error     *)
(* again.                                                                  *)

C16_AssigningReadFails ==
    (/\ last'.op = "read"
     /\ ~binds[last'.b].writable
     /\ BodyOf(last'.sel) = "assign"
     /\ IsView(ReceivedBy(last'.sel, last'.st, heap)))
    => /\ last'.err = MutationError
       /\ last'.val = Undef
       /\ commits' = commits
       /\ heap' = heap

\* the bound value is read again, by an evaluation or from the cache
C16_ReadAgainFailsAgain ==
    (/\ last.op = "read" /\ last.err = MutationError
     /\ BodyOf(last.sel) = "assign"
     /\ last'.op \in {"read", "cached"} /\ last'.b = last.b)
    => /\ last'.err = MutationError
       /\ last'.val = Undef
       /\ commits' = commits
       /\ heap' = heap

-----------------------------------------------------------------------------
(* Factories bound with refs whose values change between the binds and the *)
(* reads.                                                                  *)

RefArgValues == {Num(5), Num(6), RefTo(1), RefTo(2)}
RefNumbers == {Num(5), Num(6)}

NextFactory ==
    \/ \E f \in Factories, a \in RefArgValues : UseSelectorCreator(f, <<a>>)
    \/ \E r \in RefIds, v \in RefNumbers : SetRef(r, v)
    \/ \E b \in 1..Len(binds) : Read(b)

SpecFactory == Init /\ [][NextFactory]_vars

-----------------------------------------------------------------------------
(* C17: the getter returned by useSelectorCreator(f, args) evaluates, on   *)
(* every read, f applied to the current values of the arguments of that    *)
(* very call (a ref resolved at read time) and then the resulting selector *)
(* on the state; also when the getter was found in the cache, registered   *)
(* by a call with another ref that held the same value or with a ref whose *)
(* value has changed since.                                                *)

C17_ReadUsesOwnArguments ==
    [][(last'.op = "read" /\ binds[last'.b].kind = "factory")
       => last'.val =
             Unwrapped(Call(SelectorOf(last'.b), <<last'.st>>, Ctx(heap))).val]_vars

-----------------------------------------------------------------------------
(* Writable refs that are assigned and read, in components under the       *)
(* default store and under an injected one.                                *)

WriteMutations == {Undef, Str("SET_A")}
WriteExtras == {<< >>, <<Num(20)>>}
WrittenValues == {Num(10), Num(11)}

NextWrite ==
    \/ \E key \in {NoKey, "k1"} : UseStoreInjectionKey(key)
    \/ \E m \in WriteMutations, extra \in WriteExtras :
          UseSelector(getA, m, extra)
    \/ \E b \in 1..Len(binds), v \in WrittenValues : Assign(b, v)
    \/ \E b \in 1..Len(binds) : Read(b)

SpecWrite == Init /\ [][NextWrite]_vars

-----------------------------------------------------------------------------
(* C18: after a value is assigned through a writable bind, the next read   *)
(* through that bind reflects the store state that committing that value   *)
(* produces, after any earlier binds, store-key changes, assignments and   *)
(* commits made by other paths.                                            *)

\* the state tree that committing value v through computed ref b produces
CommittedHeap(b, v) ==
    StoreCommit(heap, binds[b].store, MutationType(binds[b].mutation),
                SetterPayload(binds[b].extra, v))

C18_ReadAfterWrite ==
    [][(/\ last.op = "assign" /\ binds[last.b].writable
        /\ last'.op = "read" /\ last'.b = last.b)
       => last'.val =
             Unwrapped(Call(SelectorOf(last.b), <<TopView(binds[last.b].store)>>,
                            Ctx(CommittedHeap(last.b, last.val)))).val]_vars

-----------------------------------------------------------------------------
(* Every operation of a component side by side: key changes, binds of a    *)
(* selector and of a factory, changes of a ref, assignments and reads.     *)

LifeMutations == {Undef, Str("SET_A")}
LifeFactoryArgs == {Num(5), RefTo(1)}

NextLife ==
    \/ \E key \in {NoKey, "k1"} : UseStoreInjectionKey(key)
    \/ \E m \in LifeMutations : UseSelector(getA, m, << >>)
    \/ \E a \in LifeFactoryArgs :
          UseSelectorCreator("createGetMultiplication", <<a>>)
    \/ \E v \in RefNumbers : SetRef(1, v)
    \/ \E b \in 1..Len(binds) : Assign(b, Num(10))
    \/ \E b \in 1..Len(binds) : Read(b)

SpecLife == Init /\ [][NextLife]_vars

-----------------------------------------------------------------------------
(* C19: once a getter is registered for a selector, or for a factory and   *)
(* an argument signature, the entry stays in its registry with the same    *)
(* getter after every later operation (bind, read, assignment, store-key   *)
(* change): no operation removes or replaces a registry entry.             *)

C19_EntriesPersist ==
    [][/\ \A sel \in DOMAIN getterRegistry :
             /\ MapHas(getterRegistry', sel)
             /\ getterRegistry'[sel] = getterRegistry[sel]
       /\ \A f \in DOMAIN factoryRegistry :
             /\ MapHas(factoryRegistry', f)
             /\ \A k \in DOMAIN factoryRegistry[f] :
                   /\ MapHas(factoryRegistry'[f], k)
                   /\ factoryRegistry'[f][k] = factoryRegistry[f][k]
       /\ \A g \in 1..Len(getters) :
             g <= Len(getters') /\ getters'[g] = getters[g]]_vars

\* the entry made for (createGetMultiplication, "5") by the first bind was
\* found by a second bind through a ref, and is still there after the ref
\* and the key have changed and the second ref was read
C19_Witness ==
    /\ last.op = "read"
    /\ storeKey = "k1"
    /\ refs[1] = Num(6)
    /\ Len(binds) = 2
    /\ binds[1].store = DEFAULT_KEY
    /\ binds[2].args = <<RefTo(1)>> /\ ~binds[2].built
    /\ MapHas(factoryRegistry, "createGetMultiplication")
    /\ MapHas(factoryRegistry["createGetMultiplication"], "5")
    /\ factoryRegistry["createGetMultiplication"]["5"] = binds[1].gid

\* the entry made for getA by a read-only bind is still there after a
\* writable bind of getA under another key, an assignment and a read
C19_WitnessSelector ==
    /\ last.op = "read"
    /\ Len(binds) = 2
    /\ binds[1].sel = getA /\ binds[2].sel = getA
    /\ binds[1].store # binds[2].store
    /\ commits # << >>
    /\ MapHas(getterRegistry, getA)
    /\ getterRegistry[getA] = binds[1].gid

-----------------------------------------------------------------------------
(* C20: the top-level view is built once per store key: once created for a *)
(* key, every later evaluation under that key gets that same view object.  *)
(* Nested views are not cached: reading the same object-valued field of a  *)
(* view twice yields two distinct view objects, both of which unwrap to    *)
(* the same raw object.                                                    *)

C20_TopViewKept ==
    /\ \A k \in DOMAIN viewRegistry :
          MapHas(viewRegistry', k) /\ viewRegistry'[k] = viewRegistry[k]
    /\ last'.op = "read"
          => /\ MapHas(viewRegistry', useStore(storeKey))
             /\ last'.st = viewRegistry'[useStore(storeKey)]
             /\ IsView(last'.st)

ObjectFields == {"data", "codes", "list"}

C20_NestedViewsDistinct ==
    \A k \in StoreIds, path \in ViewPaths, f \in ObjectFields :
        LET node == NavFrom(Ctx(heap), TopView(k), path)
            r1 == Get(node.ctx, node.val, f)
            r2 == Get(r1.ctx, node.val, f)
        IN  (IsView(node.val) /\ IsView(r1.val))
            => /\ IsView(r2.val)
               /\ r1.val # r2.val
               /\ Get(r2.ctx, r1.val, UNWRAP_KEY).val
                     = Get(r2.ctx, r2.val, UNWRAP_KEY).val
               /\ Get(r2.ctx, r1.val, UNWRAP_KEY).val
                     = RawGet(heap, node.val.n, f)

C20_ReadTwiceDiffers ==
    (last'.op = "read" /\ last'.sel = readDataTwice
        /\ RawGet(heap, last'.st.n, "data").t = "object")
    => last'.val = Bool(FALSE)

C20_ViewCaching ==
    /\ [](C20_NestedViewsDistinct)
    /\ [][C20_TopViewKept /\ C20_ReadTwiceDiffers]_vars

\* a selector comparing state.data with state.data was read under k1 after
\* another ref's read had saved the view for k1 (the view wraps the store of
\* that other ref): it was handed the saved view and found the two nested
\* views distinct
C20_Witness ==
    /\ last.op = "read"
    /\ last.sel = readDataTwice
    /\ last.val = Bool(FALSE)
    /\ storeKey = "k1"
    /\ last.st = viewRegistry["k1"]
    /\ last.st.n # RootOf(getters[binds[last.b].gid].store)

-----------------------------------------------------------------------------
(* Selectors with every kind of result: a scalar, null, an object node of  *)
(* the state, and an object or an array the combiner constructs.           *)

makeObject == createSelector(<<getA, Closure("make", Literal(1))>>)
makeArray == createSelector(<<getA, Closure("make", Arr(1))>>)

ResultSelectors == {getA, getData, getCodes, makeObject, makeArray}
ResultFactoryArgs == {Bool(TRUE), Bool(FALSE)}

NextResult ==
    \/ \E key \in {NoKey, "k1"} : UseStoreInjectionKey(key)
    \/ \E sel \in ResultSelectors : UseSelector(sel, Undef, << >>)
    \/ \E a \in ResultFactoryArgs : UseSelectorCreator("createGetData", <<a>>)
    \/ \E b \in 1..Len(binds) : Read(b)

SpecResult == Init /\ [][NextResult]_vars

-----------------------------------------------------------------------------
(* C21: the value an accessor returns equals the value the same selector   *)
(* yields when applied directly to the raw state, for every kind of        *)
(* result: a scalar, null, an object node of the state, and an object or   *)
(* array newly constructed by the combiner.                                *)

C21_AccessorEqualsDirectCall ==
    [][last'.op = "read"
       => /\ last'.val = Call(last'.sel, <<Obj(last'.st.n)>>, Ctx(heap)).val
          /\ last'.err = Call(last'.sel, <<Obj(last'.st.n)>>, Ctx(heap)).ctx.err]_vars

-----------------------------------------------------------------------------
(* C22: two cacheable useSelectorCreator calls of one factory share a      *)
(* cached getter only if their resolved argument lists are equal element   *)
(* by element (same length, same values, same value kinds): (5) and ("5")  *)
(* get different getters.  Stated of the calls that pass no ref, whose     *)
(* resolved lists are the lists they passed.                               *)

NoRefs(args) == \A i \in 1..Len(args) : ~isRef(args[i])

C22_SharedGetterMeansEqualArgs ==
    \A i, j \in FactoryBinds :
        (/\ binds[i].factory = binds[j].factory
         /\ ~shouldAlwaysRecompute(binds[i].args) /\ NoRefs(binds[i].args)
         /\ ~shouldAlwaysRecompute(binds[j].args) /\ NoRefs(binds[j].args)
         /\ binds[i].gid = binds[j].gid)
        => binds[i].args = binds[j].args

-----------------------------------------------------------------------------
(* A composed selector invoked several times, with the log of the calls    *)
(* its invocations make.                                                   *)

RECURSIVE LogAtDepth(_, _, _, _)
\* the entries of a call log at one nesting depth, from entry k on, where
\* depth is the number of calls entered and not left before entry k: the
\* functions entered at depth d (kind "call"), their argument lists (kind
\* "args"), or how the functions entered at depth d were left (kind "exit")
LogAtDepth(log, k, depth, want) ==
    IF k > Len(log) THEN << >>
    ELSE IF log[k][1] = "call"
    THEN (IF want = <<"call", depth>> THEN <<log[k][2]>>
          ELSE IF want = <<"args", depth>> THEN <<log[k][3]>>
          ELSE << >>)
            \o LogAtDepth(log, k + 1, depth + 1, want)
    ELSE (IF want = <<"exit", depth - 1>> THEN <<log[k][1]>> ELSE << >>)
            \o LogAtDepth(log, k + 1, depth - 1, want)

\* the functions invoked from outside, and how each invocation ended
TopCalls(log) == LogAtDepth(log, 1, 0, <<"call", 0>>)
TopExits(log) == LogAtDepth(log, 1, 0, <<"exit", 0>>)
\* the functions the invoked function called itself, and how each ended
ChildCalls(log) == LogAtDepth(log, 1, 0, <<"call", 1>>)
ChildExits(log) == LogAtDepth(log, 1, 0, <<"exit", 1>>)

\* what an invocation with outcome r on state st leaves behind
InvokeOutcome(sel, st, r) ==
    /\ heap' = r.ctx.h
    /\ last' = [last EXCEPT !.op = "invoke", !.sel = sel, !.st = st,
                            !.val = r.val, !.err = r.ctx.err,
                            !.calls = @ \o r.ctx.log]

\* selector(st) for selector = createSelector(...args), once more
Invoke(args, st) ==
    /\ last.op \in {"args", "invoke"}
    /\ Len(TopCalls(last.calls)) < MaxInvocations
    /\ InvokeOutcome(createSelector(args), st,
                     Call(createSelector(args), <<st>>, Ctx(heap)))
    /\ UNCHANGED <<storeKey, viewRegistry, getters, getterRegistry,
                   factoryRegistry, binds, refs, commits>>

NextInvoke == \E st \in CallStates : Invoke(last.args, st)

SpecInvoke == InitCompose /\ [][NextInvoke]_vars

-----------------------------------------------------------------------------
(* C23: one invocation of a composed selector evaluates each of its input  *)
(* selectors exactly once, in declaration order, and then invokes the      *)
(* combiner exactly once; nothing is cached, so m invocations invoke the   *)
(* combiner m times; if input selector i raises, the inputs after i and    *)
(* the combiner are not invoked.                                           *)

\* the log of the invocation a step makes
NewCalls == SubSeq(last'.calls, Len(last.calls) + 1, Len(last'.calls))

C23_InputsOnceInOrderThenCombiner ==
    last'.op = "invoke"
    => LET expected == last'.sel.inputs \o last'.sel.comb
           children == ChildCalls(NewCalls)
           exits == ChildExits(NewCalls)
       IN  /\ TopCalls(NewCalls) = <<last'.sel>>
           /\ Len(children) >= 1 /\ Len(children) <= Len(expected)
           /\ \A k \in 1..Len(children) : children[k] = expected[k]
           /\ \A k \in 1..(Len(children) - 1) : exits[k] = "return"
           /\ Len(children) < Len(expected)
                 => exits[Len(children)] = "throw"
           /\ last'.err = NoError => children = expected

\* the calls of the combiner among the calls the invocations made
CombinerCalls ==
    SelectSeq(ChildCalls(last.calls),
              LAMBDA f : <<f>> = createSelector(last.args).comb)

C23_CombinerPerInvocation ==
    (last.op = "invoke"
        /\ \A k \in 1..Len(TopExits(last.calls)) :
              TopExits(last.calls)[k] = "return")
    => Len(CombinerCalls) = Len(TopCalls(last.calls))

C23_EvaluationOrder ==
    /\ [][C23_InputsOnceInOrderThenCombiner]_vars
    /\ [](C23_CombinerPerInvocation)

\* a selector over two inputs, the first composed, was invoked twice on one
\* state and its combiner ran twice
C23_Witness ==
    /\ last.op = "invoke"
    /\ last.args = <<getSum, getB, Combiner("sub")>>
    /\ last.err = NoError
    /\ Len(TopCalls(last.calls)) = 2
    /\ ChildCalls(last.calls)
          = <<getSum, getB, Combiner("sub"), getSum, getB, Combiner("sub")>>

\* the first input raised: the second input and the combiner were not called
C23_WitnessRaise ==
    /\ last.op = "invoke"
    /\ last.args = <<getCodeA, getB, Combiner("sum")>>
    /\ last.err = TypeError
    /\ ChildCalls(last.calls) = <<getCodeA>>

-----------------------------------------------------------------------------
(* C24: createSelector called with only a combiner (no input selectors)    *)
(* returns a constant selector: for every state it invokes the combiner    *)
(* with no arguments and returns its result, never passing the state to    *)
(* the combiner.                                                           *)

\* the argument lists of the functions the invoked function called itself
ChildArgs(log) == LogAtDepth(log, 1, 0, <<"args", 1>>)

C24_CombinerOnlyIsConstant ==
    [][(last'.op = "invoke" /\ Len(last'.args) = 1)
       => /\ ChildCalls(NewCalls) = <<last'.args[1]>>
          /\ ChildArgs(NewCalls) = << << >> >>
          /\ last'.val = Call(last'.args[1], << >>, Ctx(heap)).val
          /\ last'.err = Call(last'.args[1], << >>, Ctx(heap)).ctx.err
          /\ heap' = Call(last'.args[1], << >>, Ctx(heap)).ctx.h]_vars

\* createSelector(() => 5) was invoked twice, the second time on a view, and
\* returned 5, its combiner having been called with no arguments both times
C24_Witness ==
    /\ last.op = "invoke"
    /\ last.args = <<Closure("make", Num(5))>>
    /\ IsView(last.st)
    /\ last.val = Num(5)
    /\ ChildArgs(last.calls) = << << >>, << >> >>

-----------------------------------------------------------------------------
(* C25: the setter of a writable bind issues a commit exactly when the     *)
(* assigned value is not identical to the value of the most recent commit  *)
(* that setter issued: the first assignment through a new writable bind    *)
(* always commits, whatever the value (undefined included), and assign v,  *)
(* assign w, assign v with w different from v issues three commits.        *)

\* the commits issued so far by the setter of computed ref b
CommitsBy(b) == {c \in 1..Len(commits) : commits[c].b = b}

\* the value of the most recent of them
LastCommitted(b) ==
    binds[b].hist[commits[CHOOSE c \in CommitsBy(b) :
                             \A d \in CommitsBy(b) : d <= c].at]

C25_CommitsUnlessLastCommitted ==
    [][(last'.op = "assign" /\ binds[last'.b].writable)
       => ((Len(commits') = Len(commits) + 1)
           <=> (CommitsBy(last'.b) = {}
                \/ ~StrictEq(last'.val, LastCommitted(last'.b))))]_vars

-----------------------------------------------------------------------------
(* Writable refs whose mutation throws.                                    *)

FailMutations == {Str("failA"), Str("setA")}

NextFail ==
    \/ \E m \in FailMutations, extra \in WriteExtras : UseSelector(getA, m, extra)
    \/ \E b \in 1..Len(binds), v \in WrittenValues : Assign(b, v)

SpecFail == Init /\ [][NextFail]_vars

-----------------------------------------------------------------------------
(* C26: when the store's commit raises during an assignment through a      *)
(* writable bind, the error reaches the assigner unchanged and the         *)
(* setter's record of its last committed value is left as it was before    *)
(* the assignment, so assigning the same value again calls commit again.   *)

C26_FailedCommitKeepsRecord ==
    [][/\ (last'.op = "assign" /\ Len(commits') = Len(commits) + 1
             /\ CommitError(commits'[Len(commits')].type) # NoError)
          => /\ last'.err = CommitError(commits'[Len(commits')].type)
             /\ binds'[last'.b].prev = binds[last'.b].prev
       /\ (last.op = "assign" /\ last.err # NoError
             /\ last'.op = "assign" /\ last'.b = last.b /\ last'.val = last.val)
          => Len(commits') = Len(commits) + 1]_vars

-----------------------------------------------------------------------------
(* C27: in every reachable state the top-level view cached under a store   *)
(* key wraps the root state of the store registered under that key: no     *)
(* sequence of binds, reads and store-key changes makes the view cached    *)
(* under key k wrap the state of a store registered under another key.     *)

C27_CachedViewWrapsOwnStore ==
    \A k \in DOMAIN viewRegistry : viewRegistry[k].n = RootOf(k)

-----------------------------------------------------------------------------
(* C28: changing the store key affects only binds made afterwards: a bound *)
(* value obtained while key k1 was active keeps evaluating against the     *)
(* state of store k1 on every later read, also after                       *)
(* useStoreInjectionKey(k2) and after other selectors were bound and read  *)
(* under k2.  Stated for the binds whose call constructed the getter they  *)
(* read through, whatever the key is at the time of the read.              *)

C28_BindKeepsItsStore ==
    [][(last'.op = "read" /\ binds[last'.b].built)
       => last'.val = ValueUnderBindKey(last'.b)]_vars

-----------------------------------------------------------------------------
(* C29: when no store key is configured, either never set or cleared with  *)
(* useStoreInjectionKey(undefined), evaluation uses the view cached under  *)
(* the default identifier: clearing the key after working under key k      *)
(* returns to the default store's view and not to k's view.  A read with   *)
(* no key passes the selector the view saved under the default identifier, *)
(* which is a view of the state of the default store and the view of no    *)
(* other key.                                                              *)

C29_NoKeyUsesDefaultView ==
    [][(last'.op = "read" /\ storeKey = NoKey)
       => /\ MapHas(viewRegistry', DEFAULT_KEY)
          /\ last'.st = viewRegistry'[DEFAULT_KEY]
          /\ last'.st.n = RootOf(DEFAULT_KEY)
          /\ \A k \in DOMAIN viewRegistry' \ {DEFAULT_KEY} :
                last'.st # viewRegistry'[k]]_vars

-----------------------------------------------------------------------------
(* C30: the record of the last committed value belongs to one writable     *)
(* bind call, not to the selector: two writable binds of the same selector *)
(* and mutation each commit the first time a value v is assigned through   *)
(* them (two commits in total for the same v), although both share one     *)
(* cached getter.                                                          *)

\* the first assignment of v through bind b, 0 when there is none
FirstAssigned(b, v) ==
    LET at == {i \in 1..Len(binds[b].hist) : binds[b].hist[i] = v}
    IN  IF at = {} THEN 0 ELSE CHOOSE i \in at : \A j \in at : i <= j

C30_EachBindCommitsFirstValue ==
    \A i, j \in WritableBinds :
        (/\ i # j
         /\ binds[i].sel = binds[j].sel
         /\ binds[i].mutation = binds[j].mutation)
        => /\ binds[i].gid = binds[j].gid
           /\ \A v \in AssignedValues :
                 (FirstAssigned(i, v) # 0 /\ FirstAssigned(j, v) # 0)
                 => /\ CommitsFor(i, FirstAssigned(i, v),
                                  FirstAssigned(i, v)) # {}
                    /\ CommitsFor(j, FirstAssigned(j, v),
                                  FirstAssigned(j, v)) # {}

-----------------------------------------------------------------------------
(* Binds of both kinds, read and assigned to.                              *)

NextFrame ==
    \/ \E m \in WriteMutations, extra \in WriteExtras :
          UseSelector(getA, m, extra)
    \/ UseSelectorCreator("createGetMultiplication", <<Num(5)>>)
    \/ \E b \in 1..Len(binds) : Read(b)
    \/ \E b \in 1..Len(binds), v \in WrittenValues : Assign(b, v)

SpecFrame == Init /\ [][NextFrame]_vars

-----------------------------------------------------------------------------
(* C31: binding (useSelector, useSelectorCreator) and reading a bound      *)
(* value never call the store's commit; commit is called only by an        *)
(* assignment through a writable bind, at most once per assignment, and    *)
(* the assignment never changes the list of extra arguments the bind was   *)
(* created with, so every payload of that bind has the same length.        *)

C31_OnlyAssignmentCommits ==
    commits' # commits
    => /\ last'.op = "assign" /\ binds[last'.b].writable
       /\ Len(commits') = Len(commits) + 1
       /\ SubSeq(commits', 1, Len(commits)) = commits
       /\ commits'[Len(commits')].b = last'.b

C31_ExtraArgumentsKept ==
    \A b \in 1..Len(binds) : binds'[b].extra = binds[b].extra

C31_SamePayloadLength ==
    \A c, d \in 1..Len(commits') :
        commits'[c].b = commits'[d].b
        => /\ commits'[c].payload.list = commits'[d].payload.list
           /\ Len(commits'[c].payload.items) = Len(commits'[d].payload.items)

C31_CommitFrame ==
    [][C31_OnlyAssignmentCommits /\ C31_ExtraArgumentsKept
          /\ C31_SamePayloadLength]_vars

\* a writable bind with an extra argument committed two values, a ref of
\* useSelectorCreator exists beside it, and a read followed: two commits,
\* both with payloads of two items
C31_Witness ==
    /\ last.op = "read"
    /\ Len(commits) = 2
    /\ commits[1].b = commits[2].b
    /\ binds[commits[1].b].extra = <<Num(20)>>
    /\ Len(commits[1].payload.items) = 2
    /\ Len(commits[2].payload.items) = 2
    /\ \E b \in 1..Len(binds) : binds[b].kind = "factory"

====
